---- MODULE Spec2Model ----
(***************************************************************************)
(* Superdense coding notebook (src/superdense_coding.ipynb).               *)
(*                                                                         *)
(* The program state is the circuit object qc (an append-only list of      *)
(* operations on 2 qubits and 2 classical bits), the last call made on it  *)
(* and what that call returned or raised.  Spec is the notebook: circuit   *)
(* construction, encode_message and decode_message, in any order.          *)
(*                                                                         *)
(* psi is an amplitude vector evolved gate by gate.  GateSpec applies      *)
(* every sequence of library gates to it; Spec leaves it alone, because    *)
(* decode_message simulates on a vector of its own (Branches).             *)
(*                                                                         *)
(* Amplitudes are kept exactly: a statevector is [k, v] and stands for the *)
(* four real amplitudes v[i] / sqrt(2)^k, i = 2*q1 + q0 (qubit 0 is the    *)
(* least significant bit of the basis index).  Floating point rounding of  *)
(* the simulator is not modelled.                                          *)
(***************************************************************************)
EXTENDS Integers, Sequences, FiniteSets, TLC

VARIABLES qc, psi, call, result

vars == <<qc, psi, call, result>>

\* ------------------------------------------------------------------ bounds

\* longest circuit the protocol specification builds
MaxOps == 7
\* largest shot count handed to the simulator (the notebook runs 1024)
MaxShots == 2
\* longest message handed to encode_message
MaxMsgLen == 3

\* ------------------------------------------------------------- operations

NumQubits == 2

Qubits == 0 .. (NumQubits - 1)

Basis == 0 .. (2 ^ NumQubits - 1)

\* qc.h(q), qc.x(q), qc.z(q), qc.cx(c, t), qc.measure(qubits, clbits)
H(q) == [g |-> "h", q |-> <<q>>, c |-> <<>>]

X(q) == [g |-> "x", q |-> <<q>>, c |-> <<>>]

Z(q) == [g |-> "z", q |-> <<q>>, c |-> <<>>]

CX(ctl, tgt) == [g |-> "cx", q |-> <<ctl, tgt>>, c |-> <<>>]

Measure(qubits, clbits) == [g |-> "measure", q |-> qubits, c |-> clbits]

\* the gates of the library, on every qubit
Gates ==
    {H(q) : q \in Qubits} \cup {X(q) : q \in Qubits} \cup {Z(q) : q \in Qubits}
        \cup {CX(p[1], p[2]) : p \in {x \in Qubits \X Qubits : x[1] # x[2]}}

\* --------------------------------------------------------- gate semantics

Bit(i, q) == (i \div (2 ^ q)) % 2

Flip(i, q) == IF Bit(i, q) = 0 THEN i + 2 ^ q ELSE i - 2 ^ q

ZeroState == [k |-> 0, v |-> [i \in Basis |-> IF i = 0 THEN 1 ELSE 0]]

\* H without its 1/sqrt 2 factor
ApplyH_unscaled(s, q) ==
    [k |-> s.k,
     v |-> [i \in Basis |->
              IF Bit(i, q) = 0
              THEN s.v[i] + s.v[Flip(i, q)]
              ELSE s.v[Flip(i, q)] - s.v[i]]]

\* H with the minus sign on the wrong entry: (1/sqrt 2) [[1, 1], [-1, 1]]
ApplyH_signflip(s, q) ==
    [k |-> s.k + 1,
     v |-> [i \in Basis |->
              IF Bit(i, q) = 0
              THEN s.v[i] + s.v[Flip(i, q)]
              ELSE s.v[i] - s.v[Flip(i, q)]]]

\* H = (1/sqrt 2) [[1, 1], [1, -1]] on qubit q
ApplyH(s, q) ==
    [k |-> s.k + 1,
     v |-> [i \in Basis |->
              IF Bit(i, q) = 0
              THEN s.v[i] + s.v[Flip(i, q)]
              ELSE s.v[Flip(i, q)] - s.v[i]]]

\* X = [[0, 1], [1, 0]] on qubit q
ApplyX(s, q) == [k |-> s.k, v |-> [i \in Basis |-> s.v[Flip(i, q)]]]

\* Z = [[1, 0], [0, -1]] on qubit q
ApplyZ(s, q) ==
    [k |-> s.k,
     v |-> [i \in Basis |-> IF Bit(i, q) = 1 THEN 0 - s.v[i] ELSE s.v[i]]]

\* CNOT: where the control bit is 1, swap the two amplitudes that differ in
\* the target bit
ApplyCX(s, ctl, tgt) ==
    [k |-> s.k,
     v |-> [i \in Basis |->
              IF Bit(i, ctl) = 1 THEN s.v[Flip(i, tgt)] ELSE s.v[i]]]

ApplyGate(s, op) ==
    CASE op.g = "h" -> ApplyH(s, op.q[1])
      [] op.g = "x" -> ApplyX(s, op.q[1])
      [] op.g = "z" -> ApplyZ(s, op.q[1])
      [] op.g = "cx" -> ApplyCX(s, op.q[1], op.q[2])

\* Statevector(qc): the gates replayed in circuit order from |00>
RECURSIVE Statevector(_)
Statevector(circ) ==
    IF circ = <<>>
    THEN ZeroState
    ELSE ApplyGate(Statevector(SubSeq(circ, 1, Len(circ) - 1)), circ[Len(circ)])

\* the same amplitudes with the smallest exponent: v / sqrt(2)^k =
\* (v / 2) / sqrt(2)^(k - 2)
RECURSIVE Reduce(_)
Reduce(s) ==
    IF s.k >= 2 /\ \A i \in Basis : s.v[i] % 2 = 0
    THEN Reduce([k |-> s.k - 2, v |-> [i \in Basis |-> s.v[i] \div 2]])
    ELSE s

\* ------------------------------------------------------------------ state

NoMessage == <<>>

Call(fn, message, shots) == [fn |-> fn, message |-> message, shots |-> shots]

None == [kind |-> "none", counts |-> <<>>, msg |-> ""]

Raise(msg) == [kind |-> "raise", counts |-> <<>>, msg |-> msg]

Counts(table) == [kind |-> "counts", counts |-> table, msg |-> ""]

Init ==
    /\ qc = <<>>
    /\ psi = ZeroState
    /\ call = Call("QuantumCircuit", NoMessage, 0)
    /\ result = None

\* ----------------------------------------------------------------- encoder

InvalidLength == "Error - message of incorrect length has been passed!"

\* encode_message reading the two characters in the other order
encode_message_swapped(circ, message) ==
    IF Len(message) # 2
    THEN [qc |-> circ, result |-> Raise(InvalidLength)]
    ELSE LET afterZ == IF message[2] = "1" THEN Append(circ, Z(1)) ELSE circ
             afterX == IF message[1] = "1" THEN Append(afterZ, X(1)) ELSE afterZ
         IN  [qc |-> afterX, result |-> None]

\* encode_message appending X before Z
encode_message_xfirst(circ, message) ==
    IF Len(message) # 2
    THEN [qc |-> circ, result |-> Raise(InvalidLength)]
    ELSE LET afterX == IF message[2] = "1" THEN Append(circ, X(1)) ELSE circ
             afterZ == IF message[1] = "1" THEN Append(afterX, Z(1)) ELSE afterX
         IN  [qc |-> afterZ, result |-> None]

\* encode_message testing len(message) > 2: a shorter message reaches the
\* indexing, which raises IndexError where the character is missing
encode_message_gt(circ, message) ==
    IF Len(message) > 2
    THEN [qc |-> circ, result |-> Raise(InvalidLength)]
    ELSE IF Len(message) = 0
    THEN [qc |-> circ, result |-> Raise("IndexError")]
    ELSE LET afterZ == IF message[1] = "1" THEN Append(circ, Z(1)) ELSE circ
         IN  IF Len(message) = 1
             THEN [qc |-> afterZ, result |-> Raise("IndexError")]
             ELSE [qc |-> IF message[2] = "1" THEN Append(afterZ, X(1)) ELSE afterZ,
                   result |-> None]

\* def encode_message(qc, message): the circuit afterwards and what the call
\* returned or raised.  message[0], message[1] of the code are message[1],
\* message[2] here.
encode_message(circ, message) ==
    IF Len(message) # 2
    THEN [qc |-> circ, result |-> Raise(InvalidLength)]
    ELSE LET afterZ == IF message[1] = "1" THEN Append(circ, Z(1)) ELSE circ
             afterX == IF message[2] = "1" THEN Append(afterZ, X(1)) ELSE afterZ
         IN  [qc |-> afterX, result |-> None]

\* ----------------------------------------------------------------- decoder

\* decode_message without its measurement
decode_message_nomeasure(circ) == circ \o <<CX(1, 0), H(1)>>

\* decode_message measuring into the classical slots the other way round
decode_message_crossed(circ) ==
    circ \o <<CX(1, 0), H(1), Measure(<<0, 1>>, <<1, 0>>)>>

\* the first three lines of decode_message
decode_message(circ) ==
    circ \o <<CX(1, 0), H(1), Measure(<<0, 1>>, <<0, 1>>)>>

ClBits == 0 .. 1

\* one shot's branch after measuring every qubit: the vector collapses to a
\* basis state i it has an amplitude on, and classical bit op.c[j] takes
\* qubit op.q[j]'s bit of i
Collapse(b, op) ==
    {[s |-> [k |-> 0,
             v |-> [j \in Basis |->
                      IF j = i THEN (IF b.s.v[i] > 0 THEN 1 ELSE 0 - 1) ELSE 0]],
      creg |-> [c \in ClBits |->
                  IF \E j \in DOMAIN op.c : op.c[j] = c
                  THEN Bit(i, op.q[CHOOSE j \in DOMAIN op.c : op.c[j] = c])
                  ELSE b.creg[c]]] : i \in {i \in Basis : b.s.v[i] # 0}}

\* sim.run(qc): every (vector, classical register) one shot can end in, the
\* operations run in circuit order from |00> and a cleared register
RECURSIVE Branches(_)
Branches(circ) ==
    IF circ = <<>>
    THEN {[s |-> ZeroState, creg |-> [c \in ClBits |-> 0]]}
    ELSE LET before == Branches(SubSeq(circ, 1, Len(circ) - 1))
             op == circ[Len(circ)]
         IN  IF op.g = "measure"
             THEN UNION {Collapse(b, op) : b \in before}
             ELSE {[s |-> ApplyGate(b.s, op), creg |-> b.creg] : b \in before}

BitChar(x) == IF x = 1 THEN "1" ELSE "0"

\* a counts key: the classical register printed with bit 1 first and bit 0
\* last
Bitstring(creg) == <<BitChar(creg[1]), BitChar(creg[0])>>

\* the keys a shot of the circuit can record
Outcomes(circ) == {Bitstring(b.creg) : b \in Branches(circ)}

\* the shots tallied: each key that occurred, with its number of shots
Tally(samples) ==
    [key \in {samples[n] : n \in DOMAIN samples} |->
        Cardinality({n \in DOMAIN samples : samples[n] = key})]

HasMeasure(circ) == \E n \in DOMAIN circ : circ[n].g = "measure"

NoCounts == "No counts for experiment"

\* job.result().get_counts()
get_counts(circ, samples) ==
    IF HasMeasure(circ) THEN Counts(Tally(samples)) ELSE Raise(NoCounts)

\* --------------------------------------------------------------- the calls

Symbols == {"0", "1", "a"}

Messages == UNION {[1 .. n -> Symbols] : n \in 0 .. MaxMsgLen}

\* qc = QuantumCircuit(2, 2); qc.h(1); qc.cx(1, 0)
BellPrep == <<H(1), CX(1, 0)>>

\* the cell that creates the entangled state on a fresh circuit
PrepareBell ==
    /\ qc' = BellPrep
    /\ call' = Call("QuantumCircuit", NoMessage, 0)
    /\ result' = None
    /\ UNCHANGED psi

\* encode_message(qc, message)
Encode(message) ==
    /\ Len(encode_message(qc, message).qc) <= MaxOps
    /\ qc' = encode_message(qc, message).qc
    /\ call' = Call("encode_message", message, 0)
    /\ result' = encode_message(qc, message).result
    /\ UNCHANGED psi

\* result = decode_message(qc), the simulator running shots shots
Decode(shots) ==
    /\ Len(decode_message(qc)) <= MaxOps
    /\ qc' = decode_message(qc)
    /\ call' = Call("decode_message", NoMessage, shots)
    /\ \E samples \in [1 .. shots -> Outcomes(qc')] :
          result' = get_counts(qc', samples)
    /\ UNCHANGED psi

Next ==
    \/ PrepareBell
    \/ \E message \in Messages : Encode(message)
    \/ \E shots \in 1 .. MaxShots : Decode(shots)

Spec == Init /\ [][Next]_vars

\* ---------------------------------------------------------- gate algebra

\* one gate applied to the amplitude vector
Evolve(op) ==
    /\ psi' = Reduce(ApplyGate(psi, op))
    /\ call' = Call(op.g, NoMessage, 0)
    /\ UNCHANGED <<qc, result>>

GateNext == \E op \in Gates : Evolve(op)

GateSpec == Init /\ [][GateNext]_vars

\* ------------------------------------------------------------------ claims

ValidMessages == [1 .. 2 -> {"0", "1"}]

\* C1: a fresh Bell circuit H(1), CNOT(1,0), encoded with a valid message M
\* and decoded, returns the counts table {M: shots}.
C1_DecodesMessage ==
    \A M \in ValidMessages :
        (call.fn = "decode_message"
            /\ qc = decode_message(encode_message(BellPrep, M).qc))
            => result = Counts(M :> call.shots)

C1_Witness ==
    /\ call = Call("decode_message", NoMessage, MaxShots)
    /\ qc = BellPrep \o <<Z(1), X(1), CX(1, 0), H(1), Measure(<<0, 1>>, <<0, 1>>)>>
    /\ result.counts = (<<"1", "1">> :> MaxShots)

\* the table of the notebook: what each message appends, on qubit a
EncodingTable(M, a) ==
    CASE M = <<"0", "0">> -> <<>>
      [] M = <<"0", "1">> -> <<X(a)>>
      [] M = <<"1", "0">> -> <<Z(a)>>
      [] M = <<"1", "1">> -> <<Z(a), X(a)>>

\* C2: encode_message on a valid message appends exactly the message's gates
\* (none, X, Z, or Z then X), all on one qubit, and nothing else.
C2_EncodingTable ==
    [][(call'.fn = "encode_message" /\ call'.message \in ValidMessages)
          => /\ \E a \in Qubits : qc' = qc \o EncodingTable(call'.message, a)
             /\ result' = None]_vars

C2_Witness ==
    /\ call.fn = "encode_message"
    /\ call.message = <<"1", "1">>
    /\ Len(qc) >= 2
    /\ qc[Len(qc) - 1] = Z(1)
    /\ qc[Len(qc)] = X(1)

\* C3: encode_message on a message whose length is not 2 raises the length
\* error and leaves the circuit as it was, whatever the characters.
C3_BadLengthRejected ==
    [][(call'.fn = "encode_message" /\ Len(call'.message) # 2)
          => (qc' = qc /\ result' = Raise(InvalidLength))]_vars

C3_Witness ==
    /\ call.fn = "encode_message"
    /\ Len(call.message) = 1
    /\ call.message[1] = "1"
    /\ result.kind = "raise"
    /\ qc = BellPrep

\* C4: encode_message on a 2-character message with a character outside
\* '0', '1' raises InvalidMessageSymbol and appends no gate.
C4_BadSymbolRejected ==
    [][(call'.fn = "encode_message" /\ Len(call'.message) = 2
            /\ call'.message \notin ValidMessages)
          => (qc' = qc /\ result' = Raise("InvalidMessageSymbol"))]_vars

\* C5: the qubit encode_message puts its Z/X gates on is the target of
\* decode_message's CNOT, and is neither that CNOT's control nor the qubit of
\* decode_message's Hadamard.
C5_EncoderOnCnotTarget ==
    call.fn = "decode_message"
        => LET cx == qc[Len(qc) - 2]
               h == qc[Len(qc) - 1]
           IN  \A n \in DOMAIN qc :
                   qc[n].g \in {"z", "x"}
                       => /\ qc[n].q[1] = cx.q[2]
                          /\ qc[n].q[1] # cx.q[1]
                          /\ qc[n].q[1] # h.q[1]

\* C6: a measured circuit is never executed again and never extended: in
\* every circuit a measurement is the last operation.
C6_MeasuredIsFinal ==
    \A n \in DOMAIN qc : qc[n].g = "measure" => n = Len(qc)

RECURSIVE SumOver(_, _)
SumOver(f, S) ==
    IF S = {}
    THEN 0
    ELSE LET x == CHOOSE x \in S : TRUE
         IN  f[x] + SumOver(f, S \ {x})

\* C7: decode_message returns a counts table whose keys are 2-character
\* bitstrings, whose counts are non-negative integers and sum to the shots.
C7_CountsSumToShots ==
    call.fn = "decode_message"
        => /\ result.kind = "counts"
           /\ \A key \in DOMAIN result.counts :
                 /\ key \in ValidMessages
                 /\ result.counts[key] \in Nat
           /\ SumOver(result.counts, DOMAIN result.counts) = call.shots

C7_Witness ==
    /\ call.fn = "decode_message"
    /\ call.shots = MaxShots
    /\ Cardinality(DOMAIN result.counts) = 2

\* C9: decode_message appends CNOT(1,0), H(1), Measure(0 -> 0, 1 -> 1) at
\* the end of the circuit, in this order, and changes nothing before them.
C9_DecodeAppendsThree ==
    [][call'.fn = "decode_message"
          => qc' = qc \o <<[g |-> "cx", q |-> <<1, 0>>, c |-> <<>>],
                           [g |-> "h", q |-> <<1>>, c |-> <<>>],
                           [g |-> "measure", q |-> <<0, 1>>, c |-> <<0, 1>>]>>]_vars

C9_Witness ==
    /\ call.fn = "decode_message"
    /\ Len(qc) = 7
    /\ SubSeq(qc, 1, 4) = BellPrep \o <<Z(1), X(1)>>

\* sum of the squared numerators; the norm is NormSq / 2^k
NormSq(s) ==
    s.v[0] * s.v[0] + s.v[1] * s.v[1] + s.v[2] * s.v[2]
        + s.v[3] * s.v[3]

Normalized(s) == NormSq(s) = 2 ^ s.k

\* a.v[i] / sqrt(2)^a.k = b.v[i] / sqrt(2)^b.k for every i
SameAmplitudes(a, b) ==
    IF (a.k + b.k) % 2 = 0
    THEN IF a.k >= b.k
         THEN \A i \in Basis : a.v[i] = b.v[i] * 2 ^ ((a.k - b.k) \div 2)
         ELSE \A i \in Basis : b.v[i] = a.v[i] * 2 ^ ((b.k - a.k) \div 2)
    ELSE \A i \in Basis : a.v[i] = 0 /\ b.v[i] = 0

\* C8: after every gate of every sequence of H, X, Z, CNOT applied to |00>,
\* the squared magnitudes of the four amplitudes sum to 1.
C8_NormPreserved ==
    /\ Normalized(psi)
    /\ \A op \in Gates : Normalized(ApplyGate(psi, op))

\* the Bell pair after Alice's Z(1), X(1): (|10> - |01>) / sqrt 2
C8_Witness ==
    /\ call.fn = "x"
    /\ psi = [k |-> 1,
              v |-> [i \in Basis |->
                       IF i = 2 THEN 1 ELSE IF i = 1 THEN 0 - 1 ELSE 0]]

\* C10: H(q) or CNOT(c, t) applied twice in a row to a reachable state
\* restores every amplitude, and CNOT(1,0), H(1) right after the Bell
\* preparation H(1), CNOT(1,0) gives |00> back.
C10_SelfInverse ==
    /\ \A op \in {g \in Gates : g.g \in {"h", "cx"}} :
          SameAmplitudes(ApplyGate(ApplyGate(psi, op), op), psi)
    /\ SameAmplitudes(Statevector(BellPrep \o <<CX(1, 0), H(1)>>), ZeroState)

\* the Bell pair (|00> + |11>) / sqrt 2
C10_Witness ==
    /\ call.fn = "cx"
    /\ psi = [k |-> 1, v |-> [i \in Basis |-> IF i \in {0, 3} THEN 1 ELSE 0]]

====
